---- MODULE Spec2Model ----
(***************************************************************************)
(* Model of src-tauri/src/managers/transcription.rs: the                   *)
(* TranscriptionManager that owns one speech engine, loads it in the       *)
(* background (initiate_model_load), evicts it when idle (the idle watcher *)
(* thread started by new) and accumulates streaming transcription text.    *)
(*                                                                         *)
(* Every thread of the program is a thread of the model: the caller        *)
(* threads, the threads spawned by initiate_model_load, the idle watcher   *)
(* and the owner that finally drops the manager.  A step of the model is   *)
(* one critical section (or one lock-free access) of the source.           *)
(***************************************************************************)
EXTENDS Integers, Sequences, FiniteSets, TLC

\* ------------------------------------------------------------------ bounds
MaxOps == 2          \* calls the caller threads may start in one behaviour
TickMs == 1500       \* milliseconds the clock advances in one tick
TimeoutSecs == 1     \* the n of the AfterNSeconds(n) idle policy

\* ----------------------------------------------------------------- threads
\* A thread is named by its kind and a number.
Callers == {<<"c", 1>>, <<"c", 2>>}
\* one spawned thread for every call that can be an initiate_model_load
BgName(i) == <<"b", i>>
Bgs == {BgName(i) : i \in 1..MaxOps}
Watcher == <<"w", 0>>
Owner == <<"o", 0>>
Threads == Callers \cup Bgs \cup {Watcher, Owner}

None == "none"
Free == <<"free", 0>>

\* A model-state-changed event: event_type, model_id, model_name
Event(type, id, name) == <<type, id, name>>

\* --------------------------------------------------- external collaborators
ModelIds == {"m_ok", "m_nodl", "m_whisper", "m_missing"}

\* model_manager.get_model_info(model_id)
\* (found is FALSE for the None of the Option)
GetModelInfo(m) ==
    [found |-> (m # "m_missing"),
     name |-> <<"name of", m>>,
     is_downloaded |-> (m # "m_nodl"),
     engine_type |-> IF m = "m_whisper" THEN "Whisper" ELSE "Parakeet"]

Policies == {"Never", "Immediately", "AfterNSeconds"}

\* ModelUnloadTimeout::to_seconds (crate::settings)
\* (an Option<u64>: <<>> is None, <<n>> is Some(n))
ToSeconds(p) ==
    CASE p = "Never" -> <<>>
      [] p = "Immediately" -> <<0>>
      [] OTHER -> <<TimeoutSecs>>

\* ------------------------------------------------------------------- text
\* A string is a sequence of one-character strings.
Str_hi == <<"h", "i">>
Str_EOT == <<"<", "|", "e", "n", "d", "o", "f", "t", "e", "x", "t", "|", ">">>
Str_EOU == <<"E", "O", "U">>
Str_hello == <<"h", "e", "l", "l", "o">>
Str_world == <<"w", "o", "r", "l", "d">>
Space == " "

\* str::replace(from, ""): every non-overlapping match, left to right
RECURSIVE Remove(_, _)
Remove(s, pat) ==
    IF Len(s) < Len(pat) THEN s
    ELSE IF SubSeq(s, 1, Len(pat)) = pat
         THEN Remove(SubSeq(s, Len(pat) + 1, Len(s)), pat)
         ELSE <<Head(s)>> \o Remove(Tail(s), pat)

RECURSIVE TrimStart(_)
TrimStart(s) ==
    IF s # <<>> /\ Head(s) = Space THEN TrimStart(Tail(s)) ELSE s

RECURSIVE TrimEnd(_)
TrimEnd(s) ==
    IF s # <<>> /\ s[Len(s)] = Space THEN TrimEnd(SubSeq(s, 1, Len(s) - 1)) ELSE s

\* str::trim
Trim(s) == TrimEnd(TrimStart(s))

\* result.replace("<|endoftext|>", "").replace("EOU", "").trim()
CleanResult(raw) == Trim(Remove(Remove(raw, Str_EOT), Str_EOU))

\* What ParakeetEOU::transcribe may return on success
RawOutputs == {<<>>, Str_hi \o Str_EOT \o <<Space>> \o Str_EOU}

\* What the engine may return in a recording session: nothing, a word, a word
\* with a leading space and an end-of-utterance marker, a marker alone
SessionOutputs ==
    {<<>>, Str_hello, <<Space>> \o Str_world \o Str_EOU, Str_EOT}

\* apply_custom_words when custom words are configured, else the text itself
CorrectedTexts(s) == {s}

VARIABLES
    engine,           \* Mutex<Option<ParakeetEOU>>: None or the model it holds
    engineLock,       \* holder of the engine mutex, or Free
    currentModelId,   \* Mutex<Option<String>>
    isLoading,        \* Mutex<bool>
    loadLock,         \* holder of the is_loading mutex, or Free
    idleMs,           \* now_ms - last_activity: milliseconds since the last store
    shutdownSignal,   \* AtomicBool
    watcherHandle,    \* Mutex<Option<JoinHandle>>: TRUE when Some
    handleLock,       \* holder of the watcher_handle mutex, or Free
    handlePoisoned,   \* the watcher_handle mutex was poisoned by a panic
    acc,              \* streaming_accumulation
    policy,           \* settings.model_unload_timeout
    pc,               \* each thread's position
    op,               \* the call a thread is executing
    arg,              \* load_model's model_id
    res,              \* the call's result
    txt,              \* the call's local text
    k,                \* finalize's silence-frame counter
    calls,            \* the engine calls of the thread's call: <<audio, is_final>>
    capPolicy,        \* finalize's captured settings.model_unload_timeout
    waited,           \* transcribe found is_loading true: the load it waits for
    opsLeft,          \* calls the callers may still start
    bgSpawned,        \* threads spawned by initiate_model_load
    bgResolved,       \* spawned threads that have cleared is_loading
    bgFailed,         \* spawned threads whose load_model returned an error
    nStarted,         \* loading_started events emitted
    wEvictions,       \* evictions the watcher has started
    wEmits,           \* unloaded events emitted for the watcher's last eviction
    outputs,          \* the texts ParakeetEOU::transcribe may return
    hist,             \* the chunk texts appended to streaming_accumulation since
                      \* it was last cleared, in the order of the appends
    processed,        \* the chunk texts the engine calls of transcribe have
                      \* left since then, in the order of the calls
    emitted           \* the model-state-changed events a thread's call has emitted

engineVars == <<engine, engineLock, currentModelId>>
loadVars == <<isLoading, loadLock>>
dropVars == <<shutdownSignal, watcherHandle, handleLock, handlePoisoned>>
env == <<policy, idleMs, outputs>>
locals == <<arg, txt, k, calls, capPolicy, waited, emitted>>
counters == <<opsLeft, bgSpawned, bgResolved, bgFailed, nStarted, wEvictions, wEmits>>
vars == <<engineVars, loadVars, dropVars, acc, hist, processed, env, pc, op, res, locals, counters>>

\* ------------------------------------------------------------ construction
\* TranscriptionManager::new: empty slot, idle watcher started
InitShared ==
    /\ engine = None
    /\ engineLock = Free
    /\ currentModelId = None
    /\ isLoading = FALSE
    /\ loadLock = Free
    /\ idleMs = 0
    /\ shutdownSignal = FALSE
    /\ watcherHandle = TRUE
    /\ handleLock = Free
    /\ handlePoisoned = FALSE
    /\ acc = <<>>
    /\ policy \in Policies
    /\ arg = [t \in Threads |-> None]
    /\ res = [t \in Threads |-> None]
    /\ txt = [t \in Threads |-> <<>>]
    /\ k = [t \in Threads |-> 0]
    /\ calls = [t \in Threads |-> <<>>]
    /\ capPolicy = [t \in Threads |-> None]
    /\ waited = [t \in Threads |-> 0]
    /\ bgSpawned = 0
    /\ bgResolved = 0
    /\ bgFailed = 0
    /\ nStarted = 0
    /\ wEvictions = 0
    /\ wEmits = 0
    /\ outputs = RawOutputs
    /\ hist = <<>>
    /\ processed = <<>>
    /\ emitted = [t \in Threads |-> <<>>]

InitPc ==
    [t \in Threads |->
        CASE t \in Callers -> "idle"
          [] t \in Bgs -> "unspawned"
          [] t = Watcher -> "w_top"
          [] OTHER -> "alive"]

InitOp ==
    [t \in Threads |->
        CASE t \in Callers -> None
          [] t \in Bgs -> "bg"
          [] t = Watcher -> "watch"
          [] OTHER -> "owner"]

Init ==
    /\ InitShared
    /\ pc = InitPc
    /\ op = InitOp
    /\ opsLeft = MaxOps

\* ---------------------------------------------------------------- helpers
Goto(t, p) == pc' = [pc EXCEPT ![t] = p]

\* the call returns r to its caller
Finish(t, r) ==
    /\ pc' = [pc EXCEPT ![t] = "done"]
    /\ res' = [res EXCEPT ![t] = r]

\* a caller thread is between two calls
Idle(c) == pc[c] \in {"idle", "done"}

CanStart(c) ==
    /\ c \in Callers
    /\ Idle(c)
    /\ pc[Owner] = "alive"
    /\ opsLeft > 0

\* caller c begins call o at position p with argument a; r is its result so
\* far; the locals of the call are fresh
Begin(c, o, p, a, r) ==
    /\ CanStart(c)
    /\ op' = [op EXCEPT ![c] = o]
    /\ pc' = [pc EXCEPT ![c] = p]
    /\ arg' = [arg EXCEPT ![c] = a]
    /\ res' = [res EXCEPT ![c] = r]
    /\ txt' = [txt EXCEPT ![c] = <<>>]
    /\ k' = [k EXCEPT ![c] = 0]
    /\ calls' = [calls EXCEPT ![c] = <<>>]
    /\ capPolicy' = [capPolicy EXCEPT ![c] = None]
    /\ waited' = [waited EXCEPT ![c] = 0]
    /\ emitted' = [emitted EXCEPT ![c] = <<>>]
    /\ opsLeft' = opsLeft - 1
    /\ UNCHANGED <<bgSpawned, bgResolved, bgFailed, nStarted, wEvictions, wEmits>>

\* ------------------------------------------------------------- load_model
\* where load_model's caller continues
AfterLoad(t) == IF op[t] = "bg" THEN "b_clear" ELSE "done"

LoadReturn(t, r) ==
    /\ pc' = [pc EXCEPT ![t] = AfterLoad(t)]
    /\ res' = [res EXCEPT ![t] = r]

\* emit loading_started, then validate the model (get_model_info,
\* is_downloaded, engine_type, get_model_path)
LoadBegin(t) ==
    /\ pc[t] = "l_begin"
    /\ nStarted' = nStarted + 1
    /\ LET info == GetModelInfo(arg[t])
           started == Event("loading_started", arg[t], None)
           failed == Event("loading_failed", arg[t], info.name)
       IN
        IF ~info.found
        THEN /\ LoadReturn(t, "ModelNotFound")
             /\ emitted' = [emitted EXCEPT ![t] = @ \o <<started>>]
        ELSE IF ~info.is_downloaded
        THEN /\ LoadReturn(t, "ModelNotDownloaded")
             /\ emitted' = [emitted EXCEPT ![t] = @ \o <<started, failed>>]
        ELSE IF info.engine_type # "Parakeet"
        THEN /\ LoadReturn(t, "UnsupportedEngineType")
             /\ emitted' = [emitted EXCEPT ![t] = @ \o <<started, failed>>]
        ELSE /\ emitted' = [emitted EXCEPT ![t] = @ \o <<started>>]
             /\ \E pathOk \in BOOLEAN :
                   IF pathOk THEN Goto(t, "l_build") /\ UNCHANGED res
                   ELSE LoadReturn(t, "ModelPathError")
    /\ UNCHANGED <<engineVars, loadVars, dropVars, acc, hist, processed, env, op,
                   arg, txt, k, calls, capPolicy, waited,
                   opsLeft, bgSpawned, bgResolved, bgFailed, wEvictions, wEmits>>

\* ParakeetEOU::from_pretrained, outside every lock; its error emits
\* loading_failed
LoadBuild(t) ==
    /\ pc[t] = "l_build"
    /\ \E built \in BOOLEAN :
          IF built
          THEN Goto(t, "l_inst") /\ UNCHANGED <<res, emitted>>
          ELSE /\ LoadReturn(t, "EngineLoadFailure")
               /\ emitted' = [emitted EXCEPT ![t] =
                     @ \o <<Event("loading_failed", arg[t], GetModelInfo(arg[t]).name)>>]
    /\ UNCHANGED <<engineVars, loadVars, dropVars, acc, hist, processed, env, op,
                   arg, txt, k, calls, capPolicy, waited, counters>>

\* *engine_guard = Some(engine)
LoadInstall(t) ==
    /\ pc[t] = "l_inst"
    /\ engineLock = Free
    /\ engine' = arg[t]
    /\ Goto(t, "l_id")
    /\ UNCHANGED <<engineLock, currentModelId, loadVars, dropVars, acc, hist, processed, env, op, res, locals, counters>>

\* *current_model = Some(model_id); emit loading_completed; Ok(())
LoadSetId(t) ==
    /\ pc[t] = "l_id"
    /\ currentModelId' = arg[t]
    /\ emitted' = [emitted EXCEPT ![t] =
          @ \o <<Event("loading_completed", arg[t], GetModelInfo(arg[t]).name)>>]
    /\ LoadReturn(t, "ok")
    /\ UNCHANGED <<engine, engineLock, loadVars, dropVars, acc, hist, processed, env,
                   op, arg, txt, k, calls, capPolicy, waited, counters>>

\* ----------------------------------------------------------- unload_model
\* UnloadEngine without taking the engine lock
UnloadEngineNoLock(t) ==
    /\ pc[t] = "u_eng"
    /\ engine' = None
    /\ Goto(t, "u_id")
    /\ UNCHANGED <<engineLock, currentModelId, loadVars, dropVars,
                   acc, hist, processed, env, op, res, locals, counters>>

\* *engine = None
UnloadEngine(t) ==
    /\ pc[t] = "u_eng"
    /\ engineLock = Free
    /\ engine' = None
    /\ Goto(t, "u_id")
    /\ UNCHANGED <<engineLock, currentModelId, loadVars, dropVars, acc, hist, processed, env, op, res, locals, counters>>

\* *current_model = None; emit unloaded; Ok(()).  The watcher goes on to its
\* own emit, finalize_transcription and the caller of unload_model return.
UnloadId(t) ==
    /\ pc[t] = "u_id"
    /\ currentModelId' = None
    /\ emitted' = [emitted EXCEPT ![t] = @ \o <<Event("unloaded", None, None)>>]
    /\ IF t = Watcher
       THEN /\ Goto(t, "w_emit")
            /\ wEmits' = wEmits + 1
            /\ UNCHANGED res
       ELSE /\ Finish(t, "ok")
            /\ UNCHANGED wEmits
    /\ UNCHANGED <<engine, engineLock, loadVars, dropVars, acc, hist, processed, env,
                   op, arg, txt, k, calls, capPolicy, waited,
                   opsLeft, bgSpawned, bgResolved, bgFailed, nStarted, wEvictions>>

\* ------------------------------------------------------ calls of the callers
\* load_model(model_id) called directly
StartLoad(c, m) ==
    /\ Begin(c, "load", "l_begin", m, None)
    /\ UNCHANGED <<engineVars, loadVars, dropVars, acc, hist, processed, env>>

\* unload_model() called directly
StartUnload(c) ==
    /\ Begin(c, "unload", "u_eng", None, None)
    /\ UNCHANGED <<engineVars, loadVars, dropVars, acc, hist, processed, env>>

\* reset_streaming_accumulation(): acc.clear()
ResetStreamingAccumulation(c) ==
    /\ Begin(c, "reset", "done", None, "ok")
    /\ acc' = <<>>
    /\ hist' = <<>>
    /\ processed' = <<>>
    /\ UNCHANGED <<engineVars, loadVars, dropVars, env>>

\* ---------------------------------------------------- initiate_model_load
StartInitiate(c) ==
    /\ Begin(c, "initiate", "i_lock", None, None)
    /\ UNCHANGED <<engineVars, loadVars, dropVars, acc, hist, processed, env>>

\* InitiateLock without the test of *is_loading
InitiateLockNoFlagTest(c) ==
    /\ pc[c] = "i_lock"
    /\ loadLock = Free
    /\ Goto(c, "i_chk")
    /\ loadLock' = c
    /\ UNCHANGED <<engineVars, isLoading, dropVars, acc, hist, processed, env, op, res, locals,
                   counters>>

\* is_loading.lock(); if *is_loading { return; }
InitiateLock(c) ==
    /\ pc[c] = "i_lock"
    /\ loadLock = Free
    /\ IF isLoading
       THEN Finish(c, "ok") /\ UNCHANGED loadLock
       ELSE Goto(c, "i_chk") /\ loadLock' = c /\ UNCHANGED res
    /\ UNCHANGED <<engineVars, isLoading, dropVars, acc, hist, processed, env, op,
                   locals, counters>>

\* InitiateCheck without the test of is_model_loaded()
InitiateCheckNoLoadedTest(c) ==
    /\ pc[c] = "i_chk"
    /\ engineLock = Free
    /\ loadLock' = Free
    /\ isLoading' = TRUE
    /\ bgSpawned' = bgSpawned + 1
    /\ pc' = [pc EXCEPT ![c] = "done", ![BgName(bgSpawned + 1)] = "b_start"]
    /\ res' = [res EXCEPT ![c] = "ok"]
    /\ UNCHANGED <<engineVars, dropVars, acc, hist, processed, env, op, locals,
                   opsLeft, bgResolved, bgFailed, nStarted, wEvictions, wEmits>>

\* if self.is_model_loaded() { return; } *is_loading = true; thread::spawn
InitiateCheck(c) ==
    /\ pc[c] = "i_chk"
    /\ engineLock = Free
    /\ loadLock' = Free
    /\ IF engine # None
       THEN /\ Finish(c, "ok")
            /\ UNCHANGED <<isLoading, bgSpawned>>
       ELSE /\ isLoading' = TRUE
            /\ bgSpawned' = bgSpawned + 1
            /\ pc' = [pc EXCEPT ![c] = "done", ![BgName(bgSpawned + 1)] = "b_start"]
            /\ res' = [res EXCEPT ![c] = "ok"]
    /\ UNCHANGED <<engineVars, dropVars, acc, hist, processed, env, op, locals,
                   opsLeft, bgResolved, bgFailed, nStarted, wEvictions, wEmits>>

\* the spawned thread: get_settings, load_model(&settings.selected_model)
BgStart(b) ==
    /\ b \in Bgs
    /\ pc[b] = "b_start"
    /\ \E m \in ModelIds : arg' = [arg EXCEPT ![b] = m]
    /\ Goto(b, "l_begin")
    /\ UNCHANGED <<engineVars, loadVars, dropVars, acc, hist, processed, env, op, res,
                   txt, k, calls, capPolicy, emitted, waited, counters>>

\* loading_condvar.notify_all(): every waiter goes to reacquire the lock
NotifyAll(p) == [t \in Threads |-> IF p[t] = "t_wait" THEN "t_lock" ELSE p[t]]

\* BgClear without loading_condvar.notify_all()
BgClearNoNotify(b) ==
    /\ b \in Bgs
    /\ pc[b] = "b_clear"
    /\ loadLock = Free
    /\ isLoading' = FALSE
    /\ bgResolved' = bgResolved + 1
    /\ bgFailed' = IF res[b] = "ok" THEN bgFailed ELSE bgFailed + 1
    /\ pc' = [pc EXCEPT ![b] = "d_store"]
    /\ arg' = [arg EXCEPT ![b] = None]
    /\ res' = [res EXCEPT ![b] = None]
    /\ emitted' = [emitted EXCEPT ![b] = <<>>]
    /\ UNCHANGED <<engineVars, loadLock, dropVars, acc, hist, processed, env, op, txt, k, calls, capPolicy,
                   waited, opsLeft, bgSpawned, nStarted, wEvictions, wEmits>>

\* *is_loading = false; notify_all; then the closure ends: its locals go and
\* the thread's clone of the manager is dropped
BgClear(b) ==
    /\ b \in Bgs
    /\ pc[b] = "b_clear"
    /\ loadLock = Free
    /\ isLoading' = FALSE
    /\ bgResolved' = bgResolved + 1
    /\ bgFailed' = IF res[b] = "ok" THEN bgFailed ELSE bgFailed + 1
    /\ pc' = [NotifyAll(pc) EXCEPT ![b] = "d_store"]
    /\ arg' = [arg EXCEPT ![b] = None]
    /\ res' = [res EXCEPT ![b] = None]
    /\ emitted' = [emitted EXCEPT ![b] = <<>>]
    /\ UNCHANGED <<engineVars, loadLock, dropVars, acc, hist, processed, env, op, txt, k, calls, capPolicy,
                   waited, opsLeft, bgSpawned, nStarted, wEvictions, wEmits>>

\* -------------------------------------------------------------- transcribe
\* StartTranscribe without the test of audio.len()
StartTranscribeNoEmptyTest(c, empty) ==
    /\ Begin(c, "transcribe", "t_lock", IF empty THEN "empty" ELSE "samples", None)
    /\ idleMs' = 0
    /\ UNCHANGED <<engineVars, loadVars, dropVars, acc, hist, processed, policy, outputs>>

\* last_activity.store(now); if audio.len() == 0 { return Ok(String::new()) }
StartTranscribe(c, empty) ==
    /\ IF empty
       THEN Begin(c, "transcribe", "done", "empty", "ok")
       ELSE Begin(c, "transcribe", "t_lock", "samples", None)
    /\ idleMs' = 0
    /\ UNCHANGED <<engineVars, loadVars, dropVars, acc, hist, processed, policy, outputs>>

\* a wait loop that never waits
MustWaitNever == FALSE

\* the loop condition of transcribe's wait loop
MustWait == isLoading

\* is_loading.lock(); while *is_loading { wait }: the wait releases the lock
TranscribeLock(c) ==
    /\ pc[c] = "t_lock"
    /\ loadLock = Free
    /\ IF MustWait
       THEN /\ Goto(c, "t_wait")
            /\ waited' = [waited EXCEPT ![c] = IF @ = 0 THEN bgSpawned ELSE @]
            /\ UNCHANGED loadLock
       ELSE /\ Goto(c, "t_chk")
            /\ loadLock' = c
            /\ UNCHANGED waited
    /\ UNCHANGED <<engineVars, isLoading, dropVars, acc, hist, processed, env, op,
                   res, arg, txt, k, calls, capPolicy, emitted, counters>>

\* Condvar::wait may return without a notification
SpuriousWake(c) ==
    /\ pc[c] = "t_wait"
    /\ Goto(c, "t_lock")
    /\ UNCHANGED <<engineVars, loadVars, dropVars, acc, hist, processed, env, op,
                   res, locals, counters>>

\* engine.lock(); if engine_guard.is_none() { return Err }; both guards dropped
TranscribeCheck(c) ==
    /\ pc[c] = "t_chk"
    /\ engineLock = Free
    /\ loadLock' = Free
    /\ IF engine = None
       THEN Finish(c, "ModelNotLoaded")
       ELSE Goto(c, "t_eng") /\ UNCHANGED res
    /\ UNCHANGED <<engineVars, isLoading, dropVars, acc, hist, processed, env, op,
                   locals, counters>>

\* engine.lock(); engine_guard.as_mut().ok_or_else(..)?
TranscribeAcquire(c) ==
    /\ pc[c] = "t_eng"
    /\ engineLock = Free
    /\ IF engine = None
       THEN Finish(c, "ModelNotLoaded") /\ UNCHANGED engineLock
       ELSE Goto(c, "t_call") /\ engineLock' = c /\ UNCHANGED res
    /\ UNCHANGED <<engine, currentModelId, loadVars, dropVars, acc, hist, processed,
                   env, op, locals, counters>>

\* engine.transcribe(&audio, false) returns; the guard is dropped; the text is
\* cleaned, corrected and trimmed
TranscribeCall(c) ==
    /\ pc[c] = "t_call"
    /\ engineLock' = Free
    /\ calls' = [calls EXCEPT ![c] = Append(@, <<"audio", FALSE>>)]
    /\ \/ Finish(c, "EngineInferenceFailure") /\ UNCHANGED <<txt, processed>>
       \/ \E raw \in outputs : \E corrected \in CorrectedTexts(CleanResult(raw)) :
             LET final_result == Trim(corrected) IN
             /\ txt' = [txt EXCEPT ![c] = final_result]
             /\ IF final_result = <<>>
                THEN Finish(c, "ok") /\ UNCHANGED processed
                ELSE /\ Goto(c, "t_acc")
                     /\ processed' = Append(processed, final_result)
                     /\ UNCHANGED res
    /\ UNCHANGED <<engine, currentModelId, loadVars, dropVars, acc, hist,
                   env, op, arg, k, capPolicy, emitted, waited, counters>>

\* TranscribeAccumulate without the test of accumulation.is_empty()
TranscribeAccumulateNoEmptyTest(c) ==
    /\ pc[c] = "t_acc"
    /\ acc' = acc \o <<Space>> \o txt[c]
    /\ hist' = Append(hist, txt[c])
    /\ Finish(c, "ok")
    /\ UNCHANGED <<engineVars, loadVars, dropVars, processed, env, op, locals,
                   counters>>

\* accumulation.push(' ') if not empty; accumulation.push_str(&final_result)
TranscribeAccumulate(c) ==
    /\ pc[c] = "t_acc"
    /\ acc' = IF acc # <<>> THEN acc \o <<Space>> \o txt[c] ELSE txt[c]
    /\ hist' = Append(hist, txt[c])
    /\ Finish(c, "ok")
    /\ UNCHANGED <<engineVars, loadVars, dropVars, processed, env, op, locals,
                   counters>>

\* --------------------------------------------------- finalize_transcription
StartFinalize(c) ==
    /\ Begin(c, "finalize", "f_chk", None, None)
    /\ UNCHANGED <<engineVars, loadVars, dropVars, acc, hist, processed, env>>

\* engine.lock(); if engine_guard.is_none() { return Err }
FinalizeCheck(c) ==
    /\ pc[c] = "f_chk"
    /\ engineLock = Free
    /\ IF engine = None
       THEN Finish(c, "ModelNotLoaded")
       ELSE Goto(c, "f_cap") /\ UNCHANGED res
    /\ UNCHANGED <<engineVars, loadVars, dropVars, acc, hist, processed, env, op,
                   locals, counters>>

\* FinalizeCapture with the clone and the clear under two separate locks
FinalizeCaptureSplit(c) ==
    /\ \/ /\ pc[c] = "f_cap"
          /\ capPolicy' = [capPolicy EXCEPT ![c] = policy]
          /\ txt' = [txt EXCEPT ![c] = acc]
          /\ Goto(c, "f_clr")
          /\ UNCHANGED <<acc, hist, processed>>
       \/ /\ pc[c] = "f_clr"
          /\ acc' = <<>>
          /\ hist' = <<>>
          /\ processed' = <<>>
          /\ Goto(c, IF txt[c] # <<>> THEN "f_post" ELSE "f_eng")
          /\ UNCHANGED <<capPolicy, txt>>
    /\ UNCHANGED <<engineVars, loadVars, dropVars, env, op, res,
                   arg, k, calls, waited, emitted, counters>>

\* get_settings; let result = acc.clone(); acc.clear()
FinalizeCapture(c) ==
    /\ pc[c] = "f_cap"
    /\ capPolicy' = [capPolicy EXCEPT ![c] = policy]
    /\ txt' = [txt EXCEPT ![c] = acc]
    /\ acc' = <<>>
    /\ hist' = <<>>
    /\ processed' = <<>>
    /\ Goto(c, IF acc # <<>> THEN "f_post" ELSE "f_eng")
    /\ UNCHANGED <<engineVars, loadVars, dropVars, env, op, res,
                   arg, k, calls, waited, emitted, counters>>

\* engine.lock(); engine_guard.as_mut().ok_or_else(..)?
FinalizeAcquire(c) ==
    /\ pc[c] = "f_eng"
    /\ engineLock = Free
    /\ IF engine = None
       THEN Finish(c, "ModelNotLoaded") /\ UNCHANGED engineLock
       ELSE Goto(c, "f_call") /\ engineLock' = c /\ UNCHANGED res
    /\ UNCHANGED <<engine, currentModelId, loadVars, dropVars, acc, hist, processed,
                   env, op, locals, counters>>

\* the silence frames fed by finalize_transcription: for _ in 0..3
SilenceFrames == 3

\* FinalizeCall with a loop of one silence frame
FinalizeCallOneFrame(c) ==
    /\ pc[c] = "f_call"
    /\ calls' = [calls EXCEPT ![c] = Append(@, <<"silence", TRUE>>)]
    /\ \/ /\ Finish(c, "EngineInferenceFailure")
          /\ engineLock' = Free
          /\ UNCHANGED <<txt, k>>
       \/ \E text \in outputs :
             /\ txt' = [txt EXCEPT ![c] = @ \o text]
             /\ k' = [k EXCEPT ![c] = @ + 1]
             /\ Goto(c, "f_post") /\ engineLock' = Free
             /\ UNCHANGED res
    /\ UNCHANGED <<engine, currentModelId, loadVars, dropVars, acc, hist, processed,
                   env, op, arg, capPolicy, emitted, waited, counters>>

\* one engine.transcribe(&silence, true) of the loop; the guard is dropped
\* after the last one or on an error
FinalizeCall(c) ==
    /\ pc[c] = "f_call"
    /\ calls' = [calls EXCEPT ![c] = Append(@, <<"silence", TRUE>>)]
    /\ \/ /\ Finish(c, "EngineInferenceFailure")
          /\ engineLock' = Free
          /\ UNCHANGED <<txt, k>>
       \/ \E text \in outputs :
             /\ txt' = [txt EXCEPT ![c] = @ \o text]
             /\ k' = [k EXCEPT ![c] = @ + 1]
             /\ IF k[c] + 1 = SilenceFrames
                THEN Goto(c, "f_post") /\ engineLock' = Free
                ELSE UNCHANGED <<pc, engineLock>>
             /\ UNCHANGED res
    /\ UNCHANGED <<engine, currentModelId, loadVars, dropVars, acc, hist, processed,
                   env, op, arg, capPolicy, emitted, waited, counters>>

\* FinalizePost unloading under every timeout but Never
FinalizePostUnlessNever(c) ==
    /\ pc[c] = "f_post"
    /\ \E corrected \in CorrectedTexts(txt[c]) :
          txt' = [txt EXCEPT ![c] = Trim(corrected)]
    /\ IF capPolicy[c] # "Never"
       THEN Goto(c, "u_eng") /\ UNCHANGED res
       ELSE Finish(c, "ok")
    /\ UNCHANGED <<engineVars, loadVars, dropVars, acc, hist, processed, env, op,
                   arg, k, calls, capPolicy, emitted, waited, counters>>

\* correction and trim; unload_model() if the timeout is Immediately
FinalizePost(c) ==
    /\ pc[c] = "f_post"
    /\ \E corrected \in CorrectedTexts(txt[c]) :
          txt' = [txt EXCEPT ![c] = Trim(corrected)]
    /\ IF capPolicy[c] = "Immediately"
       THEN Goto(c, "u_eng") /\ UNCHANGED res
       ELSE Finish(c, "ok")
    /\ UNCHANGED <<engineVars, loadVars, dropVars, acc, hist, processed, env, op,
                   arg, k, calls, capPolicy, emitted, waited, counters>>

\* ------------------------------------------------------------ idle watcher
\* while !shutdown_signal.load()
WatcherTop ==
    /\ pc[Watcher] = "w_top"
    /\ Goto(Watcher, IF shutdownSignal THEN "d_store" ELSE "w_sleep")
    /\ UNCHANGED <<engineVars, loadVars, dropVars, acc, hist, processed, env, op, res,
                   locals, counters>>

\* thread::sleep(10 s) ends; if shutdown_signal.load() { break }
WatcherWake ==
    /\ pc[Watcher] = "w_sleep"
    /\ Goto(Watcher, IF shutdownSignal THEN "d_store" ELSE "w_poll")
    /\ UNCHANGED <<engineVars, loadVars, dropVars, acc, hist, processed, env, op, res,
                   locals, counters>>

\* IdleExpired without the skip of the Immediately setting
IdleExpiredNoSkip ==
    /\ ToSeconds(policy) # <<>>
    /\ idleMs > ToSeconds(policy)[1] * 1000

\* the watcher's test of the timeout setting and of the idle time
IdleExpired ==
    /\ ToSeconds(policy) # <<>>
    /\ policy # "Immediately"
    /\ idleMs > ToSeconds(policy)[1] * 1000

\* get_settings; to_seconds; the idle test
WatcherPoll ==
    /\ pc[Watcher] = "w_poll"
    /\ Goto(Watcher, IF IdleExpired THEN "w_isloaded" ELSE "w_top")
    /\ UNCHANGED <<engineVars, loadVars, dropVars, acc, hist, processed, env, op, res,
                   locals, counters>>

\* if manager_cloned.is_model_loaded() { unload_model() .. }
WatcherIsLoaded ==
    /\ pc[Watcher] = "w_isloaded"
    /\ engineLock = Free
    /\ IF engine # None
       THEN /\ Goto(Watcher, "u_eng")
            /\ wEvictions' = wEvictions + 1
            /\ wEmits' = 0
            /\ emitted' = [emitted EXCEPT ![Watcher] = <<>>]
       ELSE /\ Goto(Watcher, "w_top")
            /\ UNCHANGED <<wEvictions, wEmits, emitted>>
    /\ UNCHANGED <<engineVars, loadVars, dropVars, acc, hist, processed, env, op, res,
                   arg, txt, k, calls, capPolicy, waited,
                   opsLeft, bgSpawned, bgResolved, bgFailed, nStarted>>

\* if let Ok(()) = unload_model() { emit unloaded }
WatcherEmit ==
    /\ pc[Watcher] = "w_emit"
    /\ wEmits' = wEmits + 1
    /\ emitted' = [emitted EXCEPT ![Watcher] = @ \o <<Event("unloaded", None, None)>>]
    /\ Goto(Watcher, "w_top")
    /\ UNCHANGED <<engineVars, loadVars, dropVars, acc, hist, processed, env, op, res,
                   arg, txt, k, calls, capPolicy, waited,
                   opsLeft, bgSpawned, bgResolved, bgFailed, nStarted, wEvictions>>

\* ------------------------------------------- Drop for TranscriptionManager
\* The manager is Clone and every clone runs drop: the owner's, the one moved
\* into each spawned load thread, and the one moved into the watcher thread.
Terminated(t) == pc[t] \in {"exited", "panicked"}

\* the owner drops the manager when no call is running
Teardown ==
    /\ pc[Owner] = "alive"
    /\ \A c \in Callers : Idle(c)
    /\ Goto(Owner, "d_store")
    /\ UNCHANGED <<engineVars, loadVars, dropVars, acc, hist, processed, env, op, res,
                   locals, counters>>

\* shutdown_signal.store(true)
DropStore(t) ==
    /\ pc[t] = "d_store"
    /\ shutdownSignal' = TRUE
    /\ Goto(t, "d_take")
    /\ UNCHANGED <<engineVars, loadVars, watcherHandle, handleLock, handlePoisoned,
                   acc, hist, processed, env, op, res, locals, counters>>

\* if let Some(handle) = watcher_handle.lock().unwrap().take(): the guard lives
\* to the end of the if let, so the join runs with the mutex held; unwrap
\* panics on a poisoned mutex
DropTake(t) ==
    /\ pc[t] = "d_take"
    /\ handleLock = Free
    /\ IF handlePoisoned
       THEN Goto(t, "panicked") /\ UNCHANGED <<watcherHandle, handleLock>>
       ELSE IF watcherHandle
       THEN /\ watcherHandle' = FALSE
            /\ handleLock' = t
            /\ Goto(t, "d_join")
       ELSE Goto(t, "exited") /\ UNCHANGED <<watcherHandle, handleLock>>
    /\ UNCHANGED <<engineVars, loadVars, shutdownSignal, handlePoisoned,
                   acc, hist, processed, env, op, res, locals, counters>>

\* handle.join().  In another thread it returns once the watcher thread has
\* ended, and the guard is released after it.  In the watcher thread the
\* handle is the thread's own: the join either never returns (no step) or
\* fails and panics, which poisons the mutex whose guard is held.
DropJoin(t) ==
    /\ pc[t] = "d_join"
    /\ IF t = Watcher
       THEN /\ handlePoisoned' = TRUE
            /\ Goto(t, "panicked")
       ELSE /\ Terminated(Watcher)
            /\ Goto(t, "exited")
            /\ UNCHANGED handlePoisoned
    /\ handleLock' = Free
    /\ UNCHANGED <<engineVars, loadVars, shutdownSignal, watcherHandle,
                   acc, hist, processed, env, op, res, locals, counters>>

\* ------------------------------------------------------------------ clock
\* Time passes.  The program only compares the time since the last activity
\* with the timeout, so the clock stops once the longest timeout has expired.
Tick ==
    /\ idleMs <= TimeoutSecs * 1000
    /\ idleMs' = idleMs + TickMs
    /\ UNCHANGED <<engineVars, loadVars, dropVars, acc, hist, processed, policy, outputs, pc, op, res,
                   locals, counters>>

\* ---------------------------------------------------------- specification
LoadStep(t) == LoadBegin(t) \/ LoadBuild(t) \/ LoadInstall(t) \/ LoadSetId(t)

UnloadStep(t) == UnloadEngine(t) \/ UnloadId(t)

DropStep(t) == DropStore(t) \/ DropTake(t) \/ DropJoin(t)

WatcherStep ==
    WatcherTop \/ WatcherWake \/ WatcherPoll \/ WatcherIsLoaded \/ WatcherEmit

BgStep(b) == BgStart(b) \/ BgClear(b)

InitiateStep(c) == InitiateLock(c) \/ InitiateCheck(c)

TranscribeStep(c) ==
    TranscribeLock(c) \/ SpuriousWake(c) \/ TranscribeCheck(c)
        \/ TranscribeAcquire(c) \/ TranscribeCall(c) \/ TranscribeAccumulate(c)

FinalizeStep(c) ==
    FinalizeCheck(c) \/ FinalizeCapture(c) \/ FinalizeAcquire(c)
        \/ FinalizeCall(c) \/ FinalizePost(c)

StartCall(c) ==
    \/ \E m \in ModelIds : StartLoad(c, m)
    \/ StartUnload(c)
    \/ ResetStreamingAccumulation(c)
    \/ StartInitiate(c)
    \/ \E empty \in BOOLEAN : StartTranscribe(c, empty)
    \/ StartFinalize(c)

Next ==
    \/ \E c \in Callers : StartCall(c)
    \/ \E c \in Callers : InitiateStep(c)
    \/ \E c \in Callers : TranscribeStep(c)
    \/ \E c \in Callers : FinalizeStep(c)
    \/ \E b \in Bgs : BgStep(b)
    \/ \E t \in Threads : LoadStep(t)
    \/ \E t \in Threads : UnloadStep(t)
    \/ \E t \in Threads : DropStep(t)
    \/ WatcherStep
    \/ Teardown
    \/ Tick

Spec == Init /\ [][Next]_vars

\* Every thread that can take a step of the program eventually takes it.  A
\* caller need not make another call, a condition variable need not wake
\* without a notification, the owner need not drop the manager, and the
\* watcher's join of itself need not return.
TranscribeProgress(c) ==
    TranscribeLock(c) \/ TranscribeCheck(c) \/ TranscribeAcquire(c)
        \/ TranscribeCall(c) \/ TranscribeAccumulate(c)

ThreadStep(t) ==
    \/ LoadStep(t)
    \/ UnloadStep(t)
    \/ DropStore(t) \/ DropTake(t) \/ (t # Watcher /\ DropJoin(t))
    \/ t \in Callers /\ (InitiateStep(t) \/ TranscribeProgress(t) \/ FinalizeStep(t))
    \/ t \in Bgs /\ BgStep(t)
    \/ t = Watcher /\ WatcherStep

Fairness == \A t \in Threads : WF_vars(ThreadStep(t))

\* The calls that set, clear or wait for is_loading or hold a lock the load
\* path needs, with the spawned threads, the watcher and the clock.
NextLive ==
    \/ \E c \in Callers : StartInitiate(c)
    \/ \E c \in Callers : StartTranscribe(c, FALSE)
    \/ \E c \in Callers : StartFinalize(c)
    \/ \E c \in Callers : InitiateStep(c)
    \/ \E c \in Callers : TranscribeStep(c)
    \/ \E c \in Callers : FinalizeStep(c)
    \/ \E b \in Bgs : BgStep(b)
    \/ \E t \in Threads : LoadStep(t)
    \/ \E t \in Threads : UnloadStep(t)
    \/ \E t \in Threads : DropStep(t)
    \/ WatcherStep
    \/ Tick

FairSpec == Init /\ [][NextLive]_vars /\ Fairness

\* ------------------------------------------- N concurrent initiate calls
\* Every caller thread has called initiate_model_load on the fresh manager
\* and none has taken the is_loading lock yet.
InitSingleFlight ==
    /\ InitShared
    /\ pc = [t \in Threads |-> IF t \in Callers THEN "i_lock" ELSE InitPc[t]]
    /\ op = [t \in Threads |-> IF t \in Callers THEN "initiate" ELSE InitOp[t]]
    /\ opsLeft = 0

NextSingleFlight ==
    \/ \E c \in Callers : InitiateStep(c)
    \/ \E b \in Bgs : BgStep(b)
    \/ \E t \in Threads : LoadStep(t)
    \/ \E t \in Threads : UnloadStep(t)
    \/ \E t \in Threads : DropStep(t)
    \/ WatcherStep
    \/ Tick

SpecSingleFlight == InitSingleFlight /\ [][NextSingleFlight]_vars

\* ---------------------------- two transcribe calls during a load in flight
\* A third thread's initiate_model_load has spawned the load and returned;
\* both caller threads have called transcribe with samples and stamped the
\* activity time.
InitScenarioB ==
    /\ engine = None
    /\ engineLock = Free
    /\ currentModelId = None
    /\ isLoading = TRUE
    /\ loadLock = Free
    /\ idleMs = 0
    /\ shutdownSignal = FALSE
    /\ watcherHandle = TRUE
    /\ handleLock = Free
    /\ handlePoisoned = FALSE
    /\ acc = <<>>
    /\ policy \in Policies
    /\ arg = [t \in Threads |-> None]
    /\ res = [t \in Threads |-> None]
    /\ txt = [t \in Threads |-> <<>>]
    /\ k = [t \in Threads |-> 0]
    /\ calls = [t \in Threads |-> <<>>]
    /\ capPolicy = [t \in Threads |-> None]
    /\ waited = [t \in Threads |-> 0]
    /\ bgSpawned = 1
    /\ bgResolved = 0
    /\ bgFailed = 0
    /\ nStarted = 0
    /\ wEvictions = 0
    /\ wEmits = 0
    /\ outputs = RawOutputs
    /\ hist = <<>>
    /\ processed = <<>>
    /\ emitted = [t \in Threads |-> <<>>]
    /\ pc = [t \in Threads |->
                CASE t \in Callers -> "t_lock"
                  [] t = BgName(1) -> "b_start"
                  [] OTHER -> InitPc[t]]
    /\ op = [t \in Threads |-> IF t \in Callers THEN "transcribe" ELSE InitOp[t]]
    /\ opsLeft = 0

NextScenarioB ==
    \/ \E c \in Callers : TranscribeStep(c)
    \/ \E b \in Bgs : BgStep(b)
    \/ \E t \in Threads : LoadStep(t)
    \/ \E t \in Threads : UnloadStep(t)
    \/ \E t \in Threads : DropStep(t)
    \/ WatcherStep
    \/ Tick

SpecScenarioB == InitScenarioB /\ [][NextScenarioB]_vars

\* ------------------------------------------------- one recording session
MaxSessionOps == 4   \* calls made in a sequential session
MaxStreamOps == 3    \* calls made in a concurrent session

\* A model has been loaded (load_model("m_ok") has returned Ok) and the manager
\* is otherwise as new built it; n calls are to come and the engine may return
\* the given texts.
InitLoaded(n, texts) ==
    /\ engine = "m_ok"
    /\ engineLock = Free
    /\ currentModelId = "m_ok"
    /\ isLoading = FALSE
    /\ loadLock = Free
    /\ idleMs = 0
    /\ shutdownSignal = FALSE
    /\ watcherHandle = TRUE
    /\ handleLock = Free
    /\ handlePoisoned = FALSE
    /\ acc = <<>>
    /\ hist = <<>>
    /\ processed = <<>>
    /\ policy \in Policies
    /\ outputs = texts
    /\ arg = [t \in Threads |-> None]
    /\ res = [t \in Threads |-> None]
    /\ txt = [t \in Threads |-> <<>>]
    /\ k = [t \in Threads |-> 0]
    /\ calls = [t \in Threads |-> <<>>]
    /\ capPolicy = [t \in Threads |-> None]
    /\ waited = [t \in Threads |-> 0]
    /\ emitted = [t \in Threads |-> <<>>]
    /\ bgSpawned = 0
    /\ bgResolved = 0
    /\ bgFailed = 0
    /\ nStarted = 0
    /\ wEvictions = 0
    /\ wEmits = 0
    /\ pc = InitPc
    /\ op = InitOp
    /\ opsLeft = n

\* the thread that makes the calls of a sequential session
Speaker == <<"c", 1>>

\* One thread makes its calls one after the other; the watcher runs.
NextSession ==
    \/ \E m \in ModelIds : StartLoad(Speaker, m)
    \/ StartUnload(Speaker)
    \/ ResetStreamingAccumulation(Speaker)
    \/ \E empty \in BOOLEAN : StartTranscribe(Speaker, empty)
    \/ StartFinalize(Speaker)
    \/ TranscribeProgress(Speaker)
    \/ FinalizeStep(Speaker)
    \/ \E t \in Threads : LoadStep(t)
    \/ \E t \in Threads : UnloadStep(t)
    \/ WatcherStep
    \/ Tick

InitSession == InitLoaded(MaxSessionOps, SessionOutputs)

SpecSession == InitSession /\ [][NextSession]_vars

\* Both caller threads transcribe, finalize and reset concurrently.
NextStream ==
    \/ \E c \in Callers : ResetStreamingAccumulation(c)
    \/ \E c \in Callers : StartTranscribe(c, FALSE)
    \/ \E c \in Callers : StartFinalize(c)
    \/ \E c \in Callers : TranscribeProgress(c)
    \/ \E c \in Callers : FinalizeStep(c)
    \/ \E t \in Threads : UnloadStep(t)
    \/ WatcherStep
    \/ Tick

InitStream == InitLoaded(MaxStreamOps, RawOutputs)

SpecStream == InitStream /\ [][NextStream]_vars

\* ------------------------------------- one chunk with a given raw output
\* The engine returns one raw text, built of at most MaxTokens pieces: words,
\* spaces and the two markers; one thread transcribes one chunk.
MaxTokens == 6
MaxStripOps == 1

Tokens == {Str_hello, Str_world, <<Space>>, Str_EOT, Str_EOU}
Markers == {Str_EOT, Str_EOU}

RECURSIVE Concat(_)
Concat(ts) == IF ts = <<>> THEN <<>> ELSE Head(ts) \o Concat(Tail(ts))

TokenSeqs == UNION {[1..n -> Tokens] : n \in 0..MaxTokens}

StripInputs == {Concat(ts) : ts \in TokenSeqs}

InitStrip == \E raw \in StripInputs : InitLoaded(MaxStripOps, {raw})

NextStrip ==
    \/ StartTranscribe(Speaker, FALSE)
    \/ TranscribeProgress(Speaker)

SpecStrip == InitStrip /\ [][NextStrip]_vars

\* ------------------------------------------ concurrent transcribe calls
\* Two threads transcribe chunks of one recording; the accumulation is not
\* cleared meanwhile.
MaxOrderOps == 3

InitOrder == InitLoaded(MaxOrderOps, SessionOutputs)

NextOrder ==
    \/ \E c \in Callers : StartTranscribe(c, FALSE)
    \/ \E c \in Callers : TranscribeProgress(c)

SpecOrder == InitOrder /\ [][NextOrder]_vars

\* ------------------------------------------------------------- properties
LoadPcs == {"l_begin", "l_build", "l_inst", "l_id"}

\* the spawned threads whose load has not yet cleared is_loading
BgInFlight == {b \in Bgs : pc[b] \in LoadPcs \cup {"b_start", "b_clear"}}

\* the spawned threads that have started load_model
BgAttempts == {b \in Bgs : pc[b] \notin {"unspawned", "b_start", "l_begin"}}

AllReturned == \A c \in Callers : pc[c] = "done"

\* C1 as claimed: N concurrent initiate_model_load calls on a fresh manager make
\* exactly one load attempt and emit exactly one loading_started, whatever the
\* interleaving and the outcome of the load.
C1_ExactlyOneAttempt ==
    /\ Cardinality(BgAttempts) <= 1
    /\ nStarted <= 1
    /\ bgSpawned <= 1

\* C1 as amended: the calls make at least one and at most N load attempts,
\* never two at a time, each with exactly one loading_started; an attempt
\* beyond the first is made only after an earlier attempt failed or the
\* watcher evicted the engine.
C1_SingleFlight ==
    /\ nStarted = Cardinality(BgAttempts)
    /\ Cardinality(BgInFlight) <= 1
    /\ bgSpawned <= Cardinality(Callers)
    /\ bgSpawned <= 1 + bgFailed + wEvictions
    /\ AllReturned => bgSpawned >= 1

\* both calls have returned and the one load, which succeeded, has resolved
C1_Witness ==
    /\ AllReturned
    /\ bgSpawned = 1
    /\ bgResolved = 1
    /\ bgFailed = 0
    /\ nStarted = 1
    /\ engine = "m_ok"

\* C2: at most one load spawned by initiate_model_load is in flight, and
\* is_loading is true while it is; a step of initiate_model_load that finds
\* is_loading true or the engine loaded spawns nothing and leaves is_loading,
\* the engine and the model id as they are; otherwise it sets is_loading as
\* it spawns the load.
C2_InFlight ==
    /\ Cardinality(BgInFlight) <= 1
    /\ BgInFlight # {} => isLoading
    /\ bgSpawned - bgResolved = Cardinality(BgInFlight)

C2_InitiateEffect ==
    \A c \in Callers : InitiateStep(c) =>
        /\ <<engine, currentModelId>>' = <<engine, currentModelId>>
        /\ IF isLoading \/ engine # None
           THEN <<isLoading, bgSpawned>>' = <<isLoading, bgSpawned>>
           ELSE \/ pc[c] = "i_lock" /\ <<isLoading, bgSpawned>>' = <<isLoading, bgSpawned>>
                \/ /\ pc[c] = "i_chk"
                   /\ isLoading'
                   /\ bgSpawned' = bgSpawned + 1
                   /\ pc'[BgName(bgSpawned')] = "b_start"

C2_AtMostOneInFlight == [](C2_InFlight) /\ [][C2_InitiateEffect]_vars

\* a second initiate_model_load call has returned without spawning while the
\* load spawned by the first is still in flight
C2_Witness ==
    /\ AllReturned
    /\ \A c \in Callers : op[c] = "initiate"
    /\ bgSpawned = 1
    /\ Cardinality(BgInFlight) = 1

\* no load, unload, finalize or watcher eviction is part-way through
Quiescent ==
    /\ \A c \in Callers : Idle(c)
    /\ BgInFlight = {}
    /\ pc[Watcher] \notin {"u_eng", "u_id", "w_emit"}

\* C4 as claimed: at every quiescent point the engine is present iff the
\* model id is present.
C4_Consistent == Quiescent => (engine # None <=> currentModelId # None)

\* C5 as claimed: is_loading is true whenever a load_model is executing,
\* called directly or by the spawned thread.
C5_FlagWhileLoading == (\E t \in Threads : pc[t] \in LoadPcs) => isLoading

\* whether a transcribe call got as far as the engine call
MadeEngineCall(c) == res[c] \in {"ok", "EngineInferenceFailure"}

PastWaitLoop(c) == pc[c] \in {"t_chk", "t_eng", "t_call", "t_acc", "done"}

\* C3 as claimed: of two transcribe calls made during a load in flight, neither
\* gets past the wait before the load resolves, and both have the same kind of
\* outcome: both make the engine call or both fail with ModelNotLoaded (a call
\* whose engine call fails is counted here as having made the engine call).
C3_SameOutcome ==
    /\ \A c \in Callers : PastWaitLoop(c) => bgResolved >= 1
    /\ AllReturned =>
          \A c, d \in Callers : MadeEngineCall(c) <=> MadeEngineCall(d)

\* C3 as amended: neither call gets past the wait before the load resolves; a
\* call is inside the engine only with the engine installed and its lock
\* held; each call ends with a text, an engine failure or ModelNotLoaded; and
\* one call reaches the engine while the other fails with ModelNotLoaded only
\* if the watcher has evicted the engine in between.
C3_BlockedUntilResolved ==
    /\ \A c \in Callers : PastWaitLoop(c) => bgResolved >= 1
    /\ \A c \in Callers : pc[c] = "t_call" => engine # None /\ engineLock = c
    /\ \A c \in Callers : pc[c] = "done" =>
          res[c] \in {"ok", "EngineInferenceFailure", "ModelNotLoaded"}
    /\ AllReturned =>
          \A c, d \in Callers :
             MadeEngineCall(c) /\ ~MadeEngineCall(d) => wEvictions >= 1

\* both calls waited for the load and then transcribed on the loaded engine
C3_Witness ==
    /\ AllReturned
    /\ \A c \in Callers : waited[c] = 1 /\ res[c] = "ok"
    /\ engine = "m_ok"
    /\ acc # <<>>

\* the threads inside an engine call
InEngineCall == {t \in Threads : pc[t] \in {"t_call", "f_call"}}

\* C7: at most one thread is inside an engine call, it holds the engine lock
\* and the engine is present; while a call is in progress no step empties or
\* replaces the engine slot.
C7_OneCaller ==
    /\ Cardinality(InEngineCall) <= 1
    /\ \A t \in InEngineCall : engineLock = t /\ engine # None

C7_SlotKept == InEngineCall # {} => engine' = engine

C8_WatcherLives ==
    pc[Owner] = "alive" =>
        /\ ~shutdownSignal
        /\ pc[Watcher] \notin {"d_store", "d_take", "d_join", "exited", "panicked"}

\* the watcher is in its poll loop
WatcherPolling == pc[Watcher] \in {"w_top", "w_sleep", "w_poll", "w_isloaded"}

\* the watcher is unloading the engine
WatcherEvicting == pc[Watcher] \in {"u_eng", "u_id", "w_emit"}

\* C10 as claimed: an eviction by the watcher emits exactly one unloaded event.
C10_OneUnloadedEvent ==
    wEvictions > 0 /\ ~WatcherEvicting => wEmits = 1

\* C6: under fair scheduling is_loading, once true, becomes false again,
\* whatever the outcome of the load; every transcribe call waiting on the
\* condition variable returns; and is_loading is false whenever no spawned
\* load is in flight, so that a later initiate_model_load can spawn again.
C6_FlagClears ==
    /\ isLoading ~> ~isLoading
    /\ \A c \in Callers : (pc[c] = "t_wait") ~> (pc[c] = "done")
    /\ [](BgInFlight = {} => ~isLoading)

\* a transcribe call is waiting for a load that has just failed
C6_Witness ==
    \E c \in Callers : \E b \in Bgs :
        /\ pc[c] = "t_wait"
        /\ pc[b] = "b_clear"
        /\ res[b] = "EngineLoadFailure"
        /\ isLoading

\* the engine is loaded and the AfterNSeconds timeout has expired
LoadedAndIdle == engine # None /\ IdleExpired

\* C9 as claimed: with AfterNSeconds, while the manager is in use, a loaded
\* engine that has been idle longer than the timeout is unloaded by the
\* watcher (unless a new activity or the teardown of the manager comes first).
C9_IdleEviction ==
    (LoadedAndIdle /\ pc[Owner] = "alive")
        ~> (engine = None \/ ~IdleExpired \/ pc[Owner] # "alive")

\* C11: the watcher goes from its poll to the eviction only with the policy
\* AfterNSeconds and the last activity more than the timeout ago, and calls
\* unload_model only from there and with the engine seen loaded; with Never or
\* Immediately it never evicts, whatever the idle time.
C11_PollEffect ==
    /\ (pc[Watcher] # "w_isloaded" /\ pc'[Watcher] = "w_isloaded") =>
          /\ pc[Watcher] = "w_poll"
          /\ policy = "AfterNSeconds"
          /\ idleMs > TimeoutSecs * 1000
    /\ (pc[Watcher] # "u_eng" /\ pc'[Watcher] = "u_eng") =>
          /\ pc[Watcher] = "w_isloaded"
          /\ engine # None

C11_NoEvictionUnlessAfterN ==
    policy \in {"Never", "Immediately"} =>
        /\ wEvictions = 0
        /\ pc[Watcher] \notin {"w_isloaded", "u_eng", "u_id", "w_emit"}

C11_WatcherEvictsOnlyIdle ==
    [](C11_NoEvictionUnlessAfterN) /\ [][C11_PollEffect]_vars

\* the watcher has emptied the engine slot in an eviction
C11_Witness ==
    /\ pc[Watcher] = "u_id"
    /\ policy = "AfterNSeconds"
    /\ engine = None
    /\ wEvictions >= 1

\* the owner's drop has stored the shutdown signal
TeardownBegun == pc[Owner] \notin {"alive", "d_store"}

\* C12 as claimed: once the teardown has set the shutdown signal the watcher
\* starts no eviction (no call of unload_model), and the teardown does not
\* complete before the watcher thread has ended.
C12_StartsNoEviction ==
    (pc[Watcher] # "u_eng" /\ pc'[Watcher] = "u_eng") => ~TeardownBegun

C12_JoinedBeforeComplete == pc[Owner] = "exited" => Terminated(Watcher)

C12_NoEvictionAfterShutdown ==
    [][C12_StartsNoEviction]_vars /\ [](C12_JoinedBeforeComplete)

\* C13: a transcribe call with no samples has returned the empty string as
\* soon as it is made, in every state of the manager: it is never at the wait
\* loop or at the engine and never fails; the step that makes it stamps the
\* activity time and leaves the accumulation, the engine, the model id and
\* is_loading as they are.
C13_Returned ==
    \A c \in Callers :
        (op[c] = "transcribe" /\ arg[c] = "empty") =>
            /\ pc[c] = "done"
            /\ res[c] = "ok"
            /\ txt[c] = <<>>

C13_Frame ==
    \A c \in Callers :
        StartTranscribe(c, TRUE) =>
            /\ <<acc, hist, processed>>' = <<acc, hist, processed>>
            /\ <<engine, engineLock, currentModelId>>' = <<engine, engineLock, currentModelId>>
            /\ <<isLoading, loadLock>>' = <<isLoading, loadLock>>
            /\ idleMs' = 0

C13_EmptyShortCircuit == [](C13_Returned) /\ [][C13_Frame]_vars

\* a call with no samples has returned while a load is in flight
C13_Witness ==
    \E c \in Callers :
        /\ op[c] = "transcribe"
        /\ arg[c] = "empty"
        /\ pc[c] = "done"
        /\ isLoading
        /\ engine = None
        /\ BgInFlight # {}

\* the texts joined by single spaces
RECURSIVE JoinSpace(_)
JoinSpace(ts) ==
    IF ts = <<>> THEN <<>>
    ELSE IF Len(ts) = 1 THEN ts[1]
    ELSE ts[1] \o <<Space>> \o JoinSpace(Tail(ts))

\* the chunk-level texts a transcribe call can return
ChunkTexts == {Trim(CleanResult(raw)) : raw \in outputs}

\* C14: in a sequence of sequential calls the accumulation is the non-empty
\* chunk texts returned since it was last cleared, in call order, joined by
\* single spaces; a call returns its own chunk text, which is the last one
\* appended when it is not empty; a call that returns the empty text or fails
\* leaves the accumulation as it was.
C14_Joined ==
    /\ acc = JoinSpace(hist)
    /\ \A i \in DOMAIN hist : hist[i] # <<>>
    /\ \A c \in Callers :
          (op[c] = "transcribe" /\ arg[c] = "samples" /\ pc[c] = "done" /\ res[c] = "ok") =>
              /\ txt[c] \in ChunkTexts
              /\ txt[c] # <<>> => (hist # <<>> /\ hist[Len(hist)] = txt[c])

C14_NoTextNoAppend ==
    \A c \in Callers :
        (/\ op[c] = "transcribe"
         /\ pc[c] # "done"
         /\ pc'[c] = "done"
         /\ (res'[c] # "ok" \/ txt'[c] = <<>>)) => acc' = acc

C14_Accumulation == [](C14_Joined) /\ [][C14_NoTextNoAppend]_vars

\* two calls returned hello and world and the accumulation is hello world
C14_Witness ==
    /\ hist = <<Str_hello, Str_world>>
    /\ acc = Str_hello \o <<Space>> \o Str_world
    /\ pc[Speaker] = "done"
    /\ op[Speaker] = "transcribe"
    /\ txt[Speaker] = Str_world

\* a finalize_transcription call that has returned
FinalizeDone(c) == op[c] = "finalize" /\ pc[c] = "done"

\* what three engine calls of the silence flush can return, concatenated
FlushTexts == {a \o b \o c : a \in outputs, b \in outputs, c \in outputs}

SilenceCall == <<"silence", TRUE>>

\* finalize is about to compute its result: either it captured a non-empty
\* accumulation and made no engine call, or it made exactly 3 engine calls,
\* each with silence and is_final = true, and holds their concatenated outputs
C15_CapturedOrFlushed ==
    \A c \in Callers : pc[c] = "f_post" =>
        \/ calls[c] = <<>> /\ txt[c] # <<>>
        \/ /\ calls[c] = <<SilenceCall, SilenceCall, SilenceCall>>
           /\ txt[c] \in FlushTexts

\* the accumulation is empty when a finalize that found the engine returns
C15_Drained ==
    \A c \in Callers : (FinalizeDone(c) /\ capPolicy[c] # None) => acc = <<>>

\* a finalize that finds no engine fails with ModelNotLoaded and leaves the
\* accumulation as it is
C15_NoEngine ==
    \A c \in Callers :
        (pc[c] = "f_chk" /\ pc'[c] # "f_chk" /\ engine = None) =>
            /\ pc'[c] = "done"
            /\ res'[c] = "ModelNotLoaded"
            /\ acc' = acc

\* C15 as claimed: the result of finalize is the captured accumulation, or the
\* concatenation of the outputs of its 3 silence calls, as it is.
C15_ResultAsIs ==
    \A c \in Callers : (pc[c] = "f_post" /\ pc'[c] # "f_post") => txt'[c] = txt[c]

C15_ResultIsBuffer ==
    [](C15_CapturedOrFlushed /\ C15_Drained) /\ [][C15_NoEngine /\ C15_ResultAsIs]_vars

\* C15 as amended: the result is the captured accumulation, or the concatenated
\* outputs of the 3 silence calls, after word correction and trimming; a
\* finalize whose engine call fails returns that failure after at most 3 calls,
\* and one whose engine was evicted after its first check fails with
\* ModelNotLoaded without an engine call.
C15_ResultTrimmed ==
    \A c \in Callers :
        (pc[c] = "f_post" /\ pc'[c] # "f_post") =>
            txt'[c] \in {Trim(x) : x \in CorrectedTexts(txt[c])}

C15_Failures ==
    \A c \in Callers : FinalizeDone(c) =>
        /\ res[c] \in {"ok", "ModelNotLoaded", "EngineInferenceFailure"}
        /\ res[c] = "ModelNotLoaded" => calls[c] = <<>>
        /\ res[c] = "EngineInferenceFailure" =>
              /\ Len(calls[c]) \in 1..SilenceFrames
              /\ \A i \in DOMAIN calls[c] : calls[c][i] = SilenceCall
        /\ res[c] = "ok" => Len(calls[c]) \in {0, SilenceFrames}

C15_Finalize ==
    /\ [](C15_CapturedOrFlushed /\ C15_Drained /\ C15_Failures)
    /\ [][C15_NoEngine /\ C15_ResultTrimmed]_vars

\* a finalize with nothing accumulated has returned the trimmed text of its 3
\* silence calls, which began with a space
C15_Witness ==
    /\ FinalizeDone(Speaker)
    /\ res[Speaker] = "ok"
    /\ calls[Speaker] = <<SilenceCall, SilenceCall, SilenceCall>>
    /\ txt[Speaker] = Str_world \o Str_EOU \o Str_hello \o Str_EOT
    /\ acc = <<>>

\* C16: under concurrent transcribe and finalize calls the accumulation always
\* holds exactly the chunk texts appended since it was last cleared, and the
\* step in which a finalize captures it takes all of it and leaves it empty,
\* so that no text is captured twice and none is dropped uncaptured.
C16_AllPending == acc = JoinSpace(hist)

C16_CaptureClears ==
    \A c \in Callers :
        (pc[c] = "f_cap" /\ pc'[c] # "f_cap") =>
            /\ txt'[c] = acc
            /\ acc' = <<>>
            /\ pc'[c] \in {"f_post", "f_eng"}

C16_AtomicCapture == [](C16_AllPending) /\ [][C16_CaptureClears]_vars

\* a finalize has captured a chunk text while another thread's transcribe is
\* about to append its own
C16_Witness ==
    \E c, d \in Callers :
        /\ pc[c] = "f_post"
        /\ calls[c] = <<>>
        /\ txt[c] # <<>>
        /\ pc[d] = "t_acc"
        /\ acc = <<>>

\* C17: a finalize that returns a result under the Immediately policy has
\* unloaded the engine before it returns (the engine slot and the model
\* identifier are absent and `unloaded` was emitted); the unload leaves the
\* value it returns as it was computed; under Never and AfterNSeconds a
\* finalize never enters unload_model and emits nothing.
Unloading(c) == pc[c] \in {"u_eng", "u_id"}

C17_UnloadedOnReturn ==
    \A c \in Callers :
        (FinalizeDone(c) /\ res[c] = "ok" /\ capPolicy[c] = "Immediately") =>
            /\ engine = None
            /\ currentModelId = None
            /\ emitted[c] = <<Event("unloaded", None, None)>>

C17_OnlyImmediately ==
    \A c \in Callers :
        (op[c] = "finalize" /\ (Unloading(c) \/ emitted[c] # <<>>)) =>
            capPolicy[c] = "Immediately"

C17_SameValue ==
    \A c \in Callers :
        (op[c] = "finalize" /\ Unloading(c)) =>
            /\ txt'[c] = txt[c]
            /\ pc'[c] = "done" => res'[c] = "ok"

C17_ImmediateUnload ==
    /\ [](C17_UnloadedOnReturn /\ C17_OnlyImmediately)
    /\ [][C17_SameValue]_vars

\* a finalize under the Immediately policy has returned the recorded text and
\* left the manager unloaded
C17_Witness ==
    /\ FinalizeDone(Speaker)
    /\ res[Speaker] = "ok"
    /\ capPolicy[Speaker] = "Immediately"
    /\ txt[Speaker] = Str_hello
    /\ calls[Speaker] = <<>>
    /\ engine = None
    /\ currentModelId = None

\* C18: a load that fails validation with ModelNotFound, ModelNotDownloaded or
\* UnsupportedEngineType has emitted loading_started and then loading_failed
\* for its model (with the model's name for ModelNotDownloaded) when it
\* returns, and changes neither the engine slot nor the model identifier; a
\* load that returned an error has emitted no loading_completed.
ValidationFailures == {"ModelNotFound", "ModelNotDownloaded", "UnsupportedEngineType"}

LoadReturned(t) == op[t] \in {"load", "bg"} /\ pc[t] = AfterLoad(t)

C18_FailedAfterStarted ==
    \A t \in Threads :
        (pc[t] = "l_begin" /\ res'[t] \in ValidationFailures) =>
            /\ Len(emitted'[t]) = 2
            /\ emitted'[t][1] = Event("loading_started", arg[t], None)
            /\ emitted'[t][2][1] = "loading_failed"
            /\ emitted'[t][2][2] = arg[t]
            /\ res'[t] = "ModelNotDownloaded" =>
                   emitted'[t][2][3] = GetModelInfo(arg[t]).name
            /\ engine' = engine
            /\ currentModelId' = currentModelId

C18_NoCompleted ==
    \A t \in Threads :
        (LoadReturned(t) /\ res[t] # "ok") =>
            \A i \in 1..Len(emitted[t]) : emitted[t][i][1] # "loading_completed"

C18_ValidationFailureNotified ==
    [][C18_FailedAfterStarted]_vars /\ [](C18_NoCompleted)

\* C19: the text a chunk leaves after marker removal holds neither marker and
\* no outer whitespace, is the same wherever the markers stood among the other
\* pieces of the raw output, and is `hello world` for the raw output
\* `hello<|endoftext|> EOU world`.
IsPrefix(p, s) == Len(p) <= Len(s) /\ SubSeq(s, 1, Len(p)) = p

Contains(s, pat) ==
    \E i \in 0..(Len(s) - Len(pat)) : SubSeq(s, i + 1, i + Len(pat)) = pat

\* the pieces a raw output is built of, in order
RECURSIVE Tokenize(_)
Tokenize(s) ==
    IF s = <<>> THEN <<>>
    ELSE LET tok == CHOOSE x \in Tokens : IsPrefix(x, s)
         IN <<tok>> \o Tokenize(SubSeq(s, Len(tok) + 1, Len(s)))

IsWord(tok) == tok \notin Markers

ExampleRaw ==
    Str_hello \o Str_EOT \o <<Space>> \o Str_EOU \o <<Space>> \o Str_world

ExampleText == Str_hello \o <<Space>> \o Str_world

C19_Stripped ==
    \A c \in Callers : \A raw \in outputs :
        (pc[c] = "t_call" /\ res'[c] # "EngineInferenceFailure") =>
            /\ ~Contains(txt'[c], Str_EOT)
            /\ ~Contains(txt'[c], Str_EOU)
            /\ txt'[c] = Trim(txt'[c])
            /\ txt'[c] = Trim(Concat(SelectSeq(Tokenize(raw), IsWord)))
            /\ raw = ExampleRaw => txt'[c] = ExampleText

C19_MarkerStripping == [][C19_Stripped]_vars

\* C20: no set of threads waits in a cycle on the is_loading mutex, the engine
\* mutex, the watcher_handle mutex and the join of the watcher thread; no
\* thread that holds the engine mutex asks for the is_loading mutex; the
\* watcher thread never joins itself.  (The current_model_id mutex and the
\* streaming_accumulation mutex are taken and released within one step, with
\* no other lock asked for meanwhile, so that no thread can wait behind them.)
LockWaiter(t, lock, at) == pc[t] \in at /\ lock # Free /\ lock # t

\* the thread that t cannot go on without, or None
Blocker(t) ==
    IF LockWaiter(t, loadLock, {"i_lock", "t_lock", "b_clear"}) THEN loadLock
    ELSE IF LockWaiter(t, engineLock, {"i_chk", "t_chk", "t_eng", "f_chk",
                                       "f_eng", "l_inst", "u_eng", "w_isloaded"})
    THEN engineLock
    ELSE IF LockWaiter(t, handleLock, {"d_take"}) THEN handleLock
    ELSE IF pc[t] = "d_join" /\ ~Terminated(Watcher) THEN Watcher
    ELSE None

RECURSIVE WaitsOn(_, _, _)
WaitsOn(t, u, n) ==
    /\ n > 0
    /\ Blocker(t) # None
    /\ \/ Blocker(t) = u
       \/ WaitsOn(Blocker(t), u, n - 1)

C20_NoWaitCycle == \A t \in Threads : ~WaitsOn(t, t, Cardinality(Threads))

C20_LockOrder ==
    \A t \in Threads :
        engineLock = t => pc[t] \notin {"i_lock", "t_lock", "b_clear"}

C20_NoSelfJoin == pc[Watcher] # "d_join"

C20_DeadlockFree == C20_NoWaitCycle /\ C20_LockOrder /\ C20_NoSelfJoin

\* C21: with several threads in transcribe, the chunk texts stand in the
\* accumulation in the order in which the engine processed their chunks: the
\* texts appended so far are the first of the texts the engine has left, in
\* the same order.
C21_EngineOrder ==
    /\ Len(hist) <= Len(processed)
    /\ hist = SubSeq(processed, 1, Len(hist))

====
